---- MODULE Spec2Model ----
(***************************************************************************)
(* Model of the tennis odds pipeline: odds_all.js (bulk snapshot job),     *)
(* odds.js (single-competition fetch CLI) and the scan_log part of odds.js *)
(* (history scan logger).                                                  *)
(*                                                                         *)
(* Strings are sequences of one-character strings, JavaScript numbers are  *)
(* exact rationals extended with Infinity, -Infinity and NaN (rounding of  *)
(* IEEE doubles is not modelled), `undefined` is a value of its own.       *)
(***************************************************************************)
EXTENDS Integers, Sequences, FiniteSets, TLC

VARIABLES
    now,          \* wall clock, milliseconds
    pc,           \* position of the running program's async main
    ts,           \* `ts` of the current run (ISO timestamp)
    runs,         \* number of runs started so far
    exitCode,     \* exit status of the last finished run (-1: none yet)
    inflight,     \* upstream requests issued and not yet settled
    lastDone,     \* time the last upstream request settled (-1: none in this run)
    reqLog,       \* targets of the market requests issued in the current run
    keys,         \* odds_all.js: `keys`; scan_log: `sports`
    idx,          \* index of the competition being processed
    ridx,         \* scan_log: index of the region being processed
    all,          \* odds_all.js: `all`; scan_log: `rows`
    dataDir,      \* does the directory data/ exist
    latestCsv,    \* data/odds_latest.csv   (<<>> absent, <<text>> present)
    latestJson,   \* data/odds_latest.json  (<<>> absent, <<document>> present)
    archive,      \* data/odds_{stamp}.csv: stamp -> text, for the files present
    scanHistory,  \* scan_history.csv (<<>> absent, <<lines>> present)
    argv,         \* odds.js: the parsed command line of the invocation
    oddsJson,     \* odds_{key}.json: key -> document, for the files present
    oddsCsv,      \* odds_{key}.csv: key -> text, for the files present
    csvIn,        \* serializer harness: the records handed to toCsv
    csvOut,       \* serializer harness: the text toCsv returned
    normIn,       \* normalizer harness: the odds handed to the normalizer
    normOut,      \* normalizer harness: the probabilities returned
    resp,         \* the response the last settled upstream request delivered
    regions       \* scan_log: REGIONS, parsed from the environment

vars == <<now, pc, ts, runs, exitCode, inflight, lastDone, reqLog, keys, idx,
          ridx, all, dataDir, latestCsv, latestJson, archive, scanHistory,
          argv, oddsJson, oddsCsv, csvIn, csvOut, normIn, normOut, resp,
          regions>>

harness == <<csvIn, csvOut, normIn, normOut>>
bulkFiles == <<dataDir, latestCsv, latestJson, archive>>
fetchFiles == <<oddsJson, oddsCsv>>

(***************************************************************************)
(* Bounds of the model.                                                    *)
(***************************************************************************)
MaxRuns == 2        \* runs of one program executed one after another
MaxOdds == 3        \* outcomes in an odds array given to the normalizer
MaxCsvRows == 2     \* records given to the serializer harness
Latency == 50       \* milliseconds an upstream request takes to settle

(***************************************************************************)
(* JavaScript numbers.                                                     *)
(***************************************************************************)
Abs(x) == IF x < 0 THEN 0 - x ELSE x

RECURSIVE Gcd(_, _)
Gcd(a, b) == IF b = 0 THEN a ELSE Gcd(b, a % b)

Fin(n, d) ==
    LET g == Gcd(Abs(n), Abs(d))
        s == IF d < 0 THEN 0 - 1 ELSE 1
    IN  [k |-> "fin", n |-> (s * n) \div g, d |-> (s * d) \div g]

Zero == [k |-> "fin", n |-> 0, d |-> 1]
PosInf == [k |-> "inf", n |-> 1, d |-> 0]
NegInf == [k |-> "inf", n |-> 0 - 1, d |-> 0]
NaN == [k |-> "nan", n |-> 0, d |-> 0]
Undefined == [k |-> "undef", n |-> 0, d |-> 0]

IsFin(x) == x.k = "fin"

\* Number.isFinite(x)
NumberIsFinite(x) == x.k = "fin"

\* 1 / o
Recip(o) ==
    CASE o.k = "undef" -> NaN
      [] o.k = "nan" -> NaN
      [] o.k = "inf" -> Zero
      [] o.n = 0 -> PosInf
      [] OTHER -> Fin(o.d, o.n)

\* a + b
Add(a, b) ==
    CASE a.k = "nan" \/ b.k = "nan" \/ a.k = "undef" \/ b.k = "undef" -> NaN
      [] a.k = "inf" /\ b.k = "inf" -> IF a.n = b.n THEN a ELSE NaN
      [] a.k = "inf" -> a
      [] b.k = "inf" -> b
      [] OTHER -> Fin(a.n * b.d + b.n * a.d, a.d * b.d)

\* a / b
Div(a, b) ==
    CASE a.k = "nan" \/ b.k = "nan" \/ a.k = "undef" \/ b.k = "undef" -> NaN
      [] a.k = "inf" /\ b.k = "inf" -> NaN
      [] a.k = "inf" -> IF b.n < 0 THEN [a EXCEPT !.n = 0 - a.n] ELSE a
      [] b.k = "inf" -> Zero
      [] b.n = 0 -> IF a.n = 0 THEN NaN ELSE IF a.n > 0 THEN PosInf ELSE NegInf
      [] OTHER -> Fin(a.n * b.d, a.d * b.n)

\* a < b on finite numbers
Less(a, b) == a.n * b.d < b.n * a.d

RECURSIVE reduceAdd(_, _, _)
reduceAdd(xs, i, acc) ==
    IF i > Len(xs) THEN acc ELSE reduceAdd(xs, i + 1, Add(acc, xs[i]))

\* the normalizer without the division by the sum
impliedOnly(decimalOdds) ==
    [i \in 1..Len(decimalOdds) |-> Recip(decimalOdds[i])]

normalizeDecimalOddsToProbs(decimalOdds) ==
    LET implied == [i \in 1..Len(decimalOdds) |-> Recip(decimalOdds[i])]
        sum == reduceAdd(implied, 1, Zero)
    IN  [i \in 1..Len(implied) |-> Div(implied[i], sum)]

(***************************************************************************)
(* Strings and JavaScript values.                                          *)
(***************************************************************************)
Digits == <<"0", "1", "2", "3", "4", "5", "6", "7", "8", "9">>

RECURSIVE Pow10(_)
Pow10(k) == IF k = 0 THEN 1 ELSE 10 * Pow10(k - 1)

\* decimal digits of a natural number
RECURSIVE NatToString(_)
NatToString(n) ==
    IF n < 10 THEN <<Digits[n + 1]>>
    ELSE NatToString(n \div 10) \o <<Digits[(n % 10) + 1]>>

\* the last k decimal digits of n, zero padded
RECURSIVE PadDigits(_, _)
PadDigits(n, k) ==
    IF k = 0 THEN <<>> ELSE PadDigits(n \div 10, k - 1) \o <<Digits[(n % 10) + 1]>>

\* String(x) of a number; finite numbers of the model have at most four decimals
NumberToString(x) ==
    CASE x.k = "nan" -> <<"N", "a", "N">>
      [] x.k = "undef" -> <<"u", "n", "d", "e", "f", "i", "n", "e", "d">>
      [] x.k = "inf" /\ x.n > 0 -> <<"I", "n", "f", "i", "n", "i", "t", "y">>
      [] x.k = "inf" /\ x.n < 0 -> <<"-", "I", "n", "f", "i", "n", "i", "t", "y">>
      [] x.k = "fin" ->
            LET k == CHOOSE j \in 0..4 :
                        /\ (Abs(x.n) * Pow10(j)) % x.d = 0
                        /\ \A i \in 0..(j - 1) : (Abs(x.n) * Pow10(i)) % x.d # 0
                m == (Abs(x.n) * Pow10(k)) \div x.d
                sign == IF x.n < 0 THEN <<"-">> ELSE <<>>
            IN  sign \o NatToString(m \div Pow10(k))
                     \o (IF k = 0 THEN <<>> ELSE <<".">> \o PadDigits(m % Pow10(k), k))

\* x.toFixed(4)
toFixed4(x) ==
    CASE x.k = "fin" ->
            LET m == (2 * Abs(x.n) * 10000 + x.d) \div (2 * x.d)
                sign == IF x.n < 0 THEN <<"-">> ELSE <<>>
            IN  sign \o NatToString(m \div 10000) \o <<".">> \o PadDigits(m % 10000, 4)
      [] OTHER -> NumberToString(x)

\* a JavaScript value: a string, a number or undefined
Str(s) == [t |-> "str", s |-> s, x |-> Zero]
Num(x) == IF x.k = "undef" THEN [t |-> "undef", s |-> <<>>, x |-> Zero]
          ELSE [t |-> "num", s |-> <<>>, x |-> x]
Undef == [t |-> "undef", s |-> <<>>, x |-> Zero]

\* String(v)
String(v) ==
    CASE v.t = "str" -> v.s
      [] v.t = "undef" -> NumberToString(Undefined)
      [] OTHER -> NumberToString(v.x)

\* v || ''  for a string-or-undefined value
OrEmpty(v) == IF v.t = "undef" \/ (v.t = "str" /\ v.s = <<>>) THEN Str(<<>>) ELSE v

\* parts.join(sep)
RECURSIVE Join(_, _)
Join(parts, sep) ==
    IF Len(parts) = 0 THEN <<>>
    ELSE IF Len(parts) = 1 THEN parts[1]
    ELSE parts[1] \o sep \o Join(Tail(parts), sep)

\* s.replace(/"/g, '""')
RECURSIVE DoubleQuotes(_)
DoubleQuotes(s) ==
    IF Len(s) = 0 THEN <<>>
    ELSE (IF Head(s) = "\"" THEN <<"\"", "\"">> ELSE <<Head(s)>>) \o DoubleQuotes(Tail(s))

(***************************************************************************)
(* CSV serializer.  A record is a sequence of <<key, value>> pairs in      *)
(* insertion order.                                                        *)
(***************************************************************************)
ObjectKeys(r) == [i \in 1..Len(r) |-> r[i][1]]

\* r[h]
Get(r, h) ==
    IF \E i \in 1..Len(r) : r[i][1] = h
    THEN r[CHOOSE i \in 1..Len(r) : r[i][1] = h /\ \A j \in 1..(i - 1) : r[j][1] # h][2]
    ELSE Undef

esc(v) ==
    IF v.t = "undef" THEN <<>>
    ELSE LET s == String(v)
         IN  IF \E i \in 1..Len(s) : s[i] \in {"\"", ",", "\n"}
             THEN <<"\"">> \o DoubleQuotes(s) \o <<"\"">>
             ELSE s

toCsv(rows) ==
    IF Len(rows) = 0 THEN <<>>
    ELSE LET headers == ObjectKeys(rows[1])
             line(r) == Join([j \in 1..Len(headers) |-> esc(Get(r, headers[j]))], <<",">>)
         IN  Join(<<Join(headers, <<",">>)>> \o [i \in 1..Len(rows) |-> line(rows[i])],
                  <<"\n">>)

(***************************************************************************)
(* Upstream payloads: RawMarketEvent = {id, commence_time, bookmakers},    *)
(* Bookmaker = {title, key, markets}, market = {key, outcomes},            *)
(* outcome = {name, price}.  A missing bookmakers or markets list is the   *)
(* empty list (the code reads them as `x || []`).                          *)
(***************************************************************************)
Outcome(name, price) == [name |-> name, price |-> price]
Market(key, outcomes) == [key |-> key, outcomes |-> outcomes]
Bookmaker(title, key, markets) == [title |-> title, key |-> key, markets |-> markets]
Event(id, start, bookmakers) == [id |-> id, commence_time |-> start, bookmakers |-> bookmakers]

Al == Str(<<"A", "l">>)
Bo == Str(<<"B", "o">>)
LiN == Str(<<"L", ",", "N">>)

H2h(outcomes) == Market("h2h", outcomes)

BkSpreads == Bookmaker(Str(<<"S", "0">>), Str(<<"s", "0">>), <<Market("spreads", <<Outcome(Al, Fin(19, 10)), Outcome(Bo, Fin(19, 10))>>)>>)
BkPair == Bookmaker(Str(<<"B", "1">>), Str(<<"b", "1">>), <<Market("spreads", <<>>), H2h(<<Outcome(Al, Fin(18, 10)), Outcome(Bo, Fin(22, 10))>>)>>)
BkEven == Bookmaker(Undef, Str(<<"b", "2">>), <<H2h(<<Outcome(LiN, Fin(2, 1)), Outcome(Bo, Fin(2, 1))>>)>>)
BkOne == Bookmaker(Str(<<"B", "3">>), Str(<<"b", "3">>), <<H2h(<<Outcome(Al, Fin(15, 10))>>)>>)
BkUnpriced == Bookmaker(Str(<<"B", "4">>), Str(<<"b", "4">>), <<H2h(<<Outcome(Al, Fin(15, 10)), Outcome(Bo, Undefined)>>)>>)
BkZero == Bookmaker(Str(<<"B", "5">>), Str(<<"b", "5">>), <<H2h(<<Outcome(Al, Fin(0, 1)), Outcome(Bo, Fin(2, 1))>>)>>)
BkNegative == Bookmaker(Str(<<"B", "6">>), Str(<<"b", "6">>), <<H2h(<<Outcome(Al, Fin(0 - 2, 1)), Outcome(Bo, Fin(2, 1))>>)>>)
BkThree == Bookmaker(Str(<<"B", "7">>), Str(<<"b", "7">>), <<H2h(<<Outcome(Al, Fin(2, 1)), Outcome(Bo, Fin(4, 1)), Outcome(Undef, Fin(4, 1))>>)>>)

EvNoBookmaker == Event(Str(<<"e", "0">>), Str(<<"t", "0">>), <<>>)
EvNoH2h == Event(Str(<<"e", "1">>), Str(<<"t", "1">>), <<BkSpreads>>)
EvSecondBk == Event(Str(<<"e", "2">>), Str(<<"t", "2">>), <<BkSpreads, BkPair, BkEven>>)
EvFirstBk == Event(Str(<<"e", "3">>), Str(<<"t", "3">>), <<BkEven, BkPair>>)
EvOneOutcome == Event(Str(<<"e", "4">>), Str(<<"t", "4">>), <<BkOne, BkPair>>)
EvUnpriced == Event(Str(<<"e", "5">>), Str(<<"t", "5">>), <<BkUnpriced>>)
EvZero == Event(Str(<<"e", "6">>), Str(<<"t", "6">>), <<BkZero>>)
EvNegative == Event(Str(<<"e", "7">>), Str(<<"t", "7">>), <<BkNegative>>)
EvThree == Event(Str(<<"e", "8">>), Str(<<"t", "8">>), <<BkThree>>)

\* (ev.bookmakers || []).find(b => (b.markets || []).some(m => m.key === 'h2h')):
\* the index of the bookmaker found, 0 when there is none
findBookmaker(ev) ==
    LET offers(b) == \E m \in 1..Len(b.markets) : b.markets[m].key = "h2h"
        hits == {i \in 1..Len(ev.bookmakers) : offers(ev.bookmakers[i])}
    IN  IF hits = {} THEN 0 ELSE CHOOSE i \in hits : \A j \in hits : i <= j

\* bk.markets.find(m => m.key === 'h2h'), for a bookmaker that has one
findH2h(bk) ==
    bk.markets[CHOOSE m \in 1..Len(bk.markets) :
                  /\ bk.markets[m].key = "h2h"
                  /\ \A j \in 1..(m - 1) : bk.markets[j].key # "h2h"]

\* does the event yield a row: an h2h market is found and odds.length >= 2
keepsEvent(ev) ==
    /\ findBookmaker(ev) # 0
    /\ Len(findH2h(ev.bookmakers[findBookmaker(ev)]).outcomes) >= 2

\* a || b for string-or-undefined values
Or(a, b) == IF a.t = "undef" \/ (a.t = "str" /\ a.s = <<>>) THEN b ELSE a

\* xs[i] of a JavaScript array (0-based index i): undefined past the end
At(xs, i) == IF i + 1 <= Len(xs) THEN xs[i + 1] ELSE Undefined

(***************************************************************************)
(* Row assembly.                                                           *)
(***************************************************************************)
\* process.env.REGION is not set: both programs fall back to 'eu'
REGION == <<"e", "u">>

namesOf(h2h) == [i \in 1..Len(h2h.outcomes) |-> h2h.outcomes[i].name]
oddsOf(h2h) == [i \in 1..Len(h2h.outcomes) |-> h2h.outcomes[i].price]

\* names[i] of a JavaScript array of strings (0-based index i)
NameAt(xs, i) == IF i + 1 <= Len(xs) THEN xs[i + 1] ELSE Undef

\* Number.isFinite(p) ? p.toFixed(4) : ''
probFieldFinite(p) == IF NumberIsFinite(p) THEN Str(toFixed4(p)) ELSE Str(<<>>)

\* p?.toFixed(4) ?? ''
probFieldOptional(p) == IF p.k = "undef" THEN Str(<<>>) ELSE Str(toFixed4(p))

\* odds_all.js: the row pushed for a kept event
bulkRow(ev, sportKey) ==
    LET bk == ev.bookmakers[findBookmaker(ev)]
        h2h == findH2h(bk)
        names == namesOf(h2h)
        odds == oddsOf(h2h)
        probs == normalizeDecimalOddsToProbs(odds)
    IN  << <<<<"e", "v", "e", "n", "t", "_", "i", "d">>, ev.id>>,
           <<<<"s", "t", "a", "r", "t">>, ev.commence_time>>,
           <<<<"p", "l", "a", "y", "e", "r", "1">>, OrEmpty(NameAt(names, 0))>>,
           <<<<"p", "l", "a", "y", "e", "r", "2">>, OrEmpty(NameAt(names, 1))>>,
           <<<<"o", "d", "d", "s", "1">>, Num(At(odds, 0))>>,
           <<<<"o", "d", "d", "s", "2">>, Num(At(odds, 1))>>,
           <<<<"p", "r", "o", "b", "1">>, probFieldFinite(At(probs, 0))>>,
           <<<<"p", "r", "o", "b", "2">>, probFieldFinite(At(probs, 1))>>,
           <<<<"b", "o", "o", "k", "m", "a", "k", "e", "r">>, Or(bk.title, Or(bk.key, Str(<<>>)))>>,
           <<<<"s", "p", "o", "r", "t", "_", "k", "e", "y">>, Str(sportKey)>>,
           <<<<"r", "e", "g", "i", "o", "n">>, Str(REGION)>> >>

\* odds_all.js: the rows of one response body, dropped events left out
bulkRows(raw, sportKey) ==
    LET kept == SelectSeq(raw, keepsEvent)
    IN  [i \in 1..Len(kept) |-> bulkRow(kept[i], sportKey)]

\* odds.js: the object mapped from a kept event
mappedEvent(ev) ==
    LET bk == ev.bookmakers[findBookmaker(ev)]
        h2h == findH2h(bk)
        odds == oddsOf(h2h)
    IN  [id |-> ev.id,
         start |-> ev.commence_time,
         players |-> namesOf(h2h),
         odds_decimal |-> odds,
         probs_normalized |-> normalizeDecimalOddsToProbs(odds),
         bookmaker |-> Or(bk.title, bk.key)]

\* odds.js: raw.map(...).filter(Boolean)
mapped(raw) ==
    LET kept == SelectSeq(raw, keepsEvent)
    IN  [i \in 1..Len(kept) |-> mappedEvent(kept[i])]

Upper == <<"A", "B", "C", "D", "E", "F", "G", "H", "I", "J", "K", "L", "M",
           "N", "O", "P", "Q", "R", "S", "T", "U", "V", "W", "X", "Y", "Z">>
Lower == <<"a", "b", "c", "d", "e", "f", "g", "h", "i", "j", "k", "l", "m",
           "n", "o", "p", "q", "r", "s", "t", "u", "v", "w", "x", "y", "z">>

toLowerCase(s) ==
    [i \in 1..Len(s) |->
        IF \E u \in 1..26 : Upper[u] = s[i]
        THEN Lower[CHOOSE u \in 1..26 : Upper[u] = s[i]]
        ELSE s[i]]

\* s.includes(sub)
includes(s, sub) ==
    \E i \in 1..(Len(s) - Len(sub) + 1) : SubSeq(s, i, i + Len(sub) - 1) = sub

\* xs.join(' ') of an array of strings; undefined joins as the empty string
joinNames(xs) ==
    Join([i \in 1..Len(xs) |-> IF xs[i].t = "undef" THEN <<>> ELSE xs[i].s], <<" ">>)

\* odds.js filterByNames.  The pattern is null (<<>>) or an alternation of
\* literals "A|B", given as the sequence of its alternatives, matched
\* case-insensitively anywhere in the joined player names.
filterByNames(events, includePattern) ==
    IF includePattern = <<>> THEN events
    ELSE LET test(e) == \E a \in 1..Len(includePattern) :
                            includes(toLowerCase(joinNames(e.players)),
                                     toLowerCase(includePattern[a]))
         IN  SelectSeq(events, test)

\* x ?? ''  for a number-or-undefined value
numOrEmpty(x) == IF x.k = "undef" THEN Str(<<>>) ELSE Num(x)

\* odds.js: the CSV row of a filtered event
csvRow(e, regionToUse) ==
    << <<<<"i", "d">>, e.id>>,
       <<<<"s", "t", "a", "r", "t">>, e.start>>,
       <<<<"p", "l", "a", "y", "e", "r", "1">>, OrEmpty(NameAt(e.players, 0))>>,
       <<<<"p", "l", "a", "y", "e", "r", "2">>, OrEmpty(NameAt(e.players, 1))>>,
       <<<<"o", "d", "d", "s", "1">>, numOrEmpty(At(e.odds_decimal, 0))>>,
       <<<<"o", "d", "d", "s", "2">>, numOrEmpty(At(e.odds_decimal, 1))>>,
       <<<<"p", "r", "o", "b", "1">>, probFieldOptional(At(e.probs_normalized, 0))>>,
       <<<<"p", "r", "o", "b", "2">>, probFieldOptional(At(e.probs_normalized, 1))>>,
       <<<<"b", "o", "o", "k", "m", "a", "k", "e", "r">>, OrEmpty(e.bookmaker)>>,
       <<<<"r", "e", "g", "i", "o", "n">>, Str(regionToUse)>> >>

(***************************************************************************)
(* JSON.stringify: a property whose value is undefined is left out, a      *)
(* number that is not finite and an undefined array element become null.   *)
(***************************************************************************)
Null == [k |-> "null", n |-> 0, d |-> 0]

jsonNumber(x) == IF IsFin(x) THEN x ELSE Null

jsonRow(r) ==
    LET present(p) == p[2].t # "undef"
        kept == SelectSeq(r, present)
    IN  [i \in 1..Len(kept) |->
            IF kept[i][2].t = "num"
            THEN <<kept[i][1], [kept[i][2] EXCEPT !.x = jsonNumber(@)]>>
            ELSE kept[i]]

jsonRows(rows) == [i \in 1..Len(rows) |-> jsonRow(rows[i])]

\* the events array of odds_{key}.json; an Undef field stands for a property left out
jsonEvents(events) ==
    [i \in 1..Len(events) |->
        [events[i] EXCEPT
            !.odds_decimal = [j \in 1..Len(events[i].odds_decimal) |->
                                 jsonNumber(events[i].odds_decimal[j])],
            !.probs_normalized = [j \in 1..Len(events[i].probs_normalized) |->
                                     jsonNumber(events[i].probs_normalized[j])]]]

(***************************************************************************)
(* Normalizer harness: the pure function applied to bounded inputs.        *)
(***************************************************************************)
\* finite positive decimal odds, in tenths
PositiveOdds == {Fin(n, 10) : n \in {11, 15, 18, 20, 22, 35}}

OddsArrays == UNION {[1..n -> PositiveOdds] : n \in 1..MaxOdds}

\* the state before any program has run, harness inputs aside
Fresh ==
    /\ now = 0 /\ pc = "idle" /\ ts = <<0, 0>> /\ runs = 0 /\ exitCode = 0 - 1
    /\ inflight = 0 /\ lastDone = 0 - 1 /\ reqLog = <<>> /\ keys = <<>>
    /\ idx = 0 /\ ridx = 0 /\ all = <<>> /\ dataDir = FALSE
    /\ latestCsv = <<>> /\ latestJson = <<>> /\ archive = <<>>
    /\ scanHistory = <<>> /\ argv = <<>> /\ oddsJson = <<>> /\ oddsCsv = <<>>
    /\ csvOut = <<>> /\ normOut = <<>>
    /\ resp = [kind |-> "none", body |-> <<>>]

InitNorm == Fresh /\ csvIn = <<>> /\ regions = <<>> /\ normIn \in OddsArrays

Normalize ==
    /\ pc = "idle"
    /\ normOut' = normalizeDecimalOddsToProbs(normIn)
    /\ pc' = "done"
    /\ UNCHANGED <<now, ts, runs, exitCode, inflight, lastDone, reqLog, keys,
                   idx, ridx, all, dataDir, latestCsv, latestJson, archive,
                   scanHistory, argv, oddsJson, oddsCsv, csvIn, csvOut, normIn,
                   resp, regions>>

NextNorm == Normalize

SpecNorm == InitNorm /\ [][NextNorm]_vars

(***************************************************************************)
(* Serializer harness: toCsv applied to bounded sequences of uniform       *)
(* records whose values are strings over letters, commas, quotes and       *)
(* newlines.                                                               *)
(***************************************************************************)
CsvFields ==
    {<<>>, <<"a">>, <<",">>, <<"\"">>, <<"\n">>, <<"a", "\"", ",", "\n", "\"">>}

CsvKey(j) == <<"k", Digits[j + 1]>>

CsvRecord(f) == [j \in 1..Len(f) |-> <<CsvKey(j), Str(f[j])>>]

\* no record, or one to MaxCsvRows records of one column, or of two
InitCsv ==
    /\ Fresh /\ normIn = <<>> /\ regions = <<>>
    /\ \/ csvIn = <<>>
       \/ \E n \in 1..MaxCsvRows, c \in {1, 2} :
             \E m \in [1..n -> [1..c -> CsvFields]] :
                 csvIn = [i \in 1..n |-> CsvRecord(m[i])]

Serialize ==
    /\ pc = "idle"
    /\ csvOut' = toCsv(csvIn)
    /\ pc' = "done"
    /\ UNCHANGED <<now, ts, runs, exitCode, inflight, lastDone, reqLog, keys,
                   idx, ridx, all, dataDir, latestCsv, latestJson, archive,
                   scanHistory, argv, oddsJson, oddsCsv, csvIn, normIn, normOut,
                   resp, regions>>

NextCsv == Serialize

SpecCsv == InitCsv /\ [][NextCsv]_vars

(***************************************************************************)
(* The upstream API: what a request can settle with.                       *)
(*   ok      - a success status, the body a JSON array                     *)
(*   object  - a success status, the body JSON that is not an array        *)
(*   status  - a non-success HTTP status                                   *)
(*   network - fetch() rejects (transport failure)                         *)
(***************************************************************************)
Sport(key, group, title, details, active) ==
    [key |-> key, group |-> group, title |-> title, details |-> details, active |-> active]

SpAtp == Sport(<<"a", "t", "p">>, Str(<<"T", "e", "n", "n", "i", "s">>), Str(<<"A", "T", "P", ",", " ", "\"", "A", "\"">>), Undef, TRUE)
SpWta == Sport(<<"w", "t", "a">>, Undef, Str(<<"W", "T", "A", " ", "T", "E", "N", "N", "I", "S">>), Str(<<>>), TRUE)
SpItf == Sport(<<"i", "t", "f">>, Str(<<"T", "e", "n", "n", "i", "s">>), Str(<<"I", "T", "F">>), Undef, FALSE)
SpNba == Sport(<<"n", "b", "a">>, Str(<<"H", "o", "o", "p", "s">>), Str(<<"N", "B", "A">>), Str(<<"t", "e", "n">>), TRUE)

Failure(kind) == [kind |-> kind, body |-> <<>>]
Ok(body) == [kind |-> "ok", body |-> body]

CatalogResponses ==
    {Ok(<<>>), Ok(<<SpAtp>>), Ok(<<SpNba, SpAtp, SpItf, SpWta>>),
     Failure("status"), Failure("network")}

Bodies ==
    {<<>>, <<EvNoH2h, EvSecondBk, EvThree>>, <<EvOneOutcome, EvFirstBk, EvNoBookmaker>>,
     <<EvUnpriced, EvZero, EvNegative>>}

OddsResponses ==
    {Ok(b) : b \in Bodies} \cup {Failure("status"), Failure("network"), Failure("object")}

\* time between the end of a run and the start of the next one, milliseconds
Gaps == {0, 1000}

\* new Date().toISOString(): <<"YYYY-MM-DDTHH:MM:SS" as seconds, ".mmmZ" as milliseconds>>
toISOString(t) == <<t \div 1000, t % 1000>>

\* the text of an ISO timestamp, for the files it is written to
isoText(t) == NatToString(t[1]) \o <<".">> \o PadDigits(t[2], 3) \o <<"Z">>

\* ts.replace(/[-:]/g,'').slice(0,15): "YYYYMMDDTHHMMSS", the timestamp cut to the second
stampOf(t) == t[1]

\* the file system: f with the file k written
Put(f, k, v) == [x \in (DOMAIN f) \cup {k} |-> IF x = k THEN v ELSE f[x]]

\* the record of an issued upstream request
Request(key, region) ==
    [key |-> key, region |-> region, at |-> now, prevDone |-> lastDone]

\* the tennis filter of the three catalog readers
isTennis(s) ==
    \/ includes(toLowerCase(OrEmpty(s.group).s), <<"t", "e", "n", "n", "i", "s">>)
    \/ includes(toLowerCase(OrEmpty(s.details).s), <<"t", "e", "n", "n", "i", "s">>)
    \/ includes(toLowerCase(OrEmpty(s.title).s), <<"t", "e", "n", "n", "i", "s">>)

(***************************************************************************)
(* odds_all.js: the bulk snapshot job.                                     *)
(***************************************************************************)
SleepBulk == 200

getActiveTennisKeys(data) ==
    LET wanted(sp) == isTennis(sp) /\ sp.active
        kept == SelectSeq(data, wanted)
    IN  [i \in 1..Len(kept) |-> [key |-> kept[i].key, title |-> kept[i].title]]

\* what fetchOddsForKey does with a settled request: throw, or return rows
fetchOddsForKeyAll(r, sportKey) ==
    CASE r.kind = "network" -> [threw |-> TRUE, rows |-> <<>>]
      [] r.kind = "status" -> [threw |-> FALSE, rows |-> <<>>]
      [] r.kind = "object" -> [threw |-> TRUE, rows |-> <<>>]
      [] OTHER -> [threw |-> FALSE, rows |-> bulkRows(r.body, sportKey)]

\* the document with the number of competitions as its count
latestDocumentCountsKeys(t, rows) ==
    [fetchedAt |-> isoText(t), region |-> REGION, count |-> Len(keys),
     events |-> jsonRows(rows)]

\* the document written to data/odds_latest.json
latestDocument(t, rows) ==
    [fetchedAt |-> isoText(t), region |-> REGION, count |-> Len(rows),
     events |-> jsonRows(rows)]

BulkStart ==
    /\ pc \in {"idle", "done", "failed"}
    /\ runs < MaxRuns
    /\ \E gap \in (IF runs = 0 THEN {0} ELSE Gaps) :
          /\ now' = now + gap
          /\ ts' = toISOString(now + gap)
          /\ reqLog' = <<[key |-> <<"s", "p", "o", "r", "t", "s">>, region |-> <<>>, at |-> now + gap,
                          prevDone |-> 0 - 1]>>
    /\ runs' = runs + 1
    /\ exitCode' = 0 - 1
    /\ keys' = <<>> /\ idx' = 0 /\ all' = <<>>
    /\ inflight' = inflight + 1
    /\ lastDone' = 0 - 1
    /\ resp' = [kind |-> "none", body |-> <<>>]
    /\ pc' = "catalog"
    /\ UNCHANGED <<ridx, bulkFiles, scanHistory, argv, fetchFiles, harness, regions>>

BulkCatalog ==
    /\ pc = "catalog"
    /\ \E r \in CatalogResponses :
          /\ resp' = r
          /\ IF r.kind = "ok"
             THEN /\ keys' = getActiveTennisKeys(r.body)
                  /\ idx' = 1
                  /\ pc' = "loop"
                  /\ UNCHANGED exitCode
             ELSE /\ pc' = "failed"
                  /\ exitCode' = 1
                  /\ UNCHANGED <<keys, idx>>
    /\ now' = now + Latency
    /\ inflight' = inflight - 1
    /\ lastDone' = now + Latency
    /\ UNCHANGED <<ts, runs, reqLog, ridx, all, bulkFiles, scanHistory, argv,
                   fetchFiles, harness, regions>>

BulkFetch ==
    /\ pc = "loop"
    /\ idx <= Len(keys)
    /\ reqLog' = Append(reqLog, Request(keys[idx].key, REGION))
    /\ inflight' = inflight + 1
    /\ pc' = "odds"
    /\ UNCHANGED <<now, ts, runs, exitCode, lastDone, keys, idx, ridx, all,
                   bulkFiles, scanHistory, argv, fetchFiles, harness, resp, regions>>

BulkOdds ==
    /\ pc = "odds"
    /\ \E r \in OddsResponses :
          LET got == fetchOddsForKeyAll(r, keys[idx].key) IN
          /\ resp' = r
          /\ IF got.threw
             THEN /\ pc' = "failed"
                  /\ exitCode' = 1
                  /\ UNCHANGED all
             ELSE /\ all' = all \o got.rows
                  /\ pc' = "sleep"
                  /\ UNCHANGED exitCode
    /\ now' = now + Latency
    /\ inflight' = inflight - 1
    /\ lastDone' = now + Latency
    /\ UNCHANGED <<ts, runs, reqLog, keys, idx, ridx, bulkFiles, scanHistory,
                   argv, fetchFiles, harness, regions>>

BulkSleep ==
    /\ pc = "sleep"
    /\ now' = now + SleepBulk
    /\ idx' = idx + 1
    /\ pc' = "loop"
    /\ UNCHANGED <<ts, runs, exitCode, inflight, lastDone, reqLog, keys, ridx,
                   all, bulkFiles, scanHistory, argv, fetchFiles, harness, resp,
                   regions>>

BulkWrite ==
    /\ pc = "loop"
    /\ idx > Len(keys)
    /\ dataDir' = TRUE
    /\ latestCsv' = <<toCsv(all)>>
    /\ latestJson' = <<latestDocument(ts, all)>>
    /\ archive' = Put(archive, stampOf(ts), toCsv(all))
    /\ pc' = "done"
    /\ exitCode' = 0
    /\ UNCHANGED <<now, ts, runs, inflight, lastDone, reqLog, keys, idx, ridx,
                   all, scanHistory, argv, fetchFiles, harness, resp, regions>>

InitBulk == Fresh /\ csvIn = <<>> /\ normIn = <<>> /\ regions = <<>>

NextBulk ==
    \/ BulkStart
    \/ BulkCatalog
    \/ BulkFetch
    \/ BulkOdds
    \/ BulkSleep
    \/ BulkWrite

SpecBulk == InitBulk /\ [][NextBulk]_vars

(***************************************************************************)
(* scan_log (second part of odds.js): the history scan logger.             *)
(***************************************************************************)
SleepScan == 150

\* REGIONS as parsed from the environment: the default, or REGIONS=eu,uk
RegionLists == {<<<<"e", "u">>>>, <<<<"e", "u">>, <<"u", "k">>>>}

\* the scan only counts the events of a body
ScanResponses ==
    {Ok(<<EvNoH2h, EvSecondBk>>), Failure("status"), Failure("network")}

\* fetchJSON throws on a transport failure and on a non-success status
fetchJSONThrows(r) == r.kind \in {"network", "status"}

getTennisSports(data) ==
    LET kept == SelectSeq(data, isTennis)
    IN  [i \in 1..Len(kept) |->
            [key |-> kept[i].key, title |-> kept[i].title, active |-> kept[i].active]]

\* (await getTennisSports()).filter(s => s.active)
activeSports(data) ==
    LET isActive(sp) == sp.active IN SelectSeq(getTennisSports(data), isActive)

countEvents(r) ==
    IF fetchJSONThrows(r) THEN 0 - 1
    ELSE IF r.kind = "ok" THEN Len(r.body) ELSE 0

\* JSON.stringify(v) of a string or of undefined, inside a template literal
RECURSIVE jsonEscape(_)
jsonEscape(str) ==
    IF Len(str) = 0 THEN <<>>
    ELSE (CASE Head(str) = "\"" -> <<"\\", "\"">>
            [] Head(str) = "\\" -> <<"\\", "\\">>
            [] Head(str) = "\n" -> <<"\\", "n">>
            [] OTHER -> <<Head(str)>>) \o jsonEscape(Tail(str))

jsonString(v) ==
    IF v.t = "undef" THEN NumberToString(Undefined)
    ELSE <<"\"">> \o jsonEscape(v.s) \o <<"\"">>

\* a count as text
countText(n) == IF n < 0 THEN <<"-">> \o NatToString(0 - n) ELSE NatToString(n)

header == <<"t", "i", "m", "e", "s", "t", "a", "m", "p", ",", "k", "e", "y", ",", "t", "i", "t", "l", "e", ",", "r", "e", "g", "i", "o", "n", ",", "c", "o", "u", "n", "t">> \o <<"\n">>

line(o) ==
    isoText(o.ts) \o <<",">> \o jsonString(Str(o.key)) \o <<",">> \o jsonString(o.title)
        \o <<",">> \o o.region \o <<",">> \o countText(o.count) \o <<"\n">>

\* rows.map(line).join('')
RECURSIVE joinLines(_)
joinLines(rows) == IF Len(rows) = 0 THEN <<>> ELSE line(Head(rows)) \o joinLines(Tail(rows))

\* the write that forgets to test for the file: the header goes out every time
appendHistoryAlwaysHeader(file, rows) == <<(IF file = <<>> THEN <<>> ELSE file[1]) \o header \o joinLines(rows)>>

\* if (!fs.existsSync(outPath)) fs.writeFileSync(outPath, header);
\* fs.appendFileSync(outPath, rows.map(line).join(''))
appendHistory(file, rows) ==
    LET existing == IF file = <<>> THEN header ELSE file[1]
    IN  <<existing \o joinLines(rows)>>

ScanStart ==
    /\ pc \in {"idle", "done", "failed"}
    /\ runs < MaxRuns
    /\ \E gap \in (IF runs = 0 THEN {0} ELSE Gaps) :
          /\ now' = now + gap
          /\ ts' = toISOString(now + gap)
          /\ reqLog' = <<[key |-> <<"s", "p", "o", "r", "t", "s">>, region |-> <<>>, at |-> now + gap,
                          prevDone |-> 0 - 1]>>
    /\ runs' = runs + 1
    /\ exitCode' = 0 - 1
    /\ keys' = <<>> /\ idx' = 0 /\ ridx' = 0 /\ all' = <<>>
    /\ inflight' = inflight + 1
    /\ lastDone' = 0 - 1
    /\ resp' = [kind |-> "none", body |-> <<>>]
    /\ pc' = "catalog"
    /\ UNCHANGED <<bulkFiles, scanHistory, argv, fetchFiles, harness, regions>>

ScanCatalog ==
    /\ pc = "catalog"
    /\ \E r \in CatalogResponses :
          /\ resp' = r
          /\ IF fetchJSONThrows(r)
             THEN /\ pc' = "failed"
                  /\ exitCode' = 1
                  /\ UNCHANGED <<keys, idx, ridx>>
             ELSE /\ keys' = activeSports(r.body)
                  /\ idx' = 1 /\ ridx' = 1
                  /\ pc' = "loop"
                  /\ UNCHANGED exitCode
    /\ now' = now + Latency
    /\ inflight' = inflight - 1
    /\ lastDone' = now + Latency
    /\ UNCHANGED <<ts, runs, reqLog, all, bulkFiles, scanHistory, argv,
                   fetchFiles, harness, regions>>

ScanFetch ==
    /\ pc = "loop"
    /\ idx <= Len(keys)
    /\ reqLog' = Append(reqLog, Request(keys[idx].key, regions[ridx]))
    /\ inflight' = inflight + 1
    /\ pc' = "odds"
    /\ UNCHANGED <<now, ts, runs, exitCode, lastDone, keys, idx, ridx, all,
                   bulkFiles, scanHistory, argv, fetchFiles, harness, resp, regions>>

ScanCount ==
    /\ pc = "odds"
    /\ \E r \in ScanResponses :
          /\ resp' = r
          /\ all' = Append(all, [ts |-> ts, key |-> keys[idx].key,
                                 title |-> keys[idx].title, region |-> regions[ridx],
                                 count |-> countEvents(r)])
    /\ now' = now + Latency
    /\ inflight' = inflight - 1
    /\ lastDone' = now + Latency
    /\ pc' = "sleep"
    /\ UNCHANGED <<ts, runs, exitCode, reqLog, keys, idx, ridx, bulkFiles,
                   scanHistory, argv, fetchFiles, harness, regions>>

ScanSleep ==
    /\ pc = "sleep"
    /\ now' = now + SleepScan
    /\ IF ridx < Len(regions)
       THEN ridx' = ridx + 1 /\ UNCHANGED idx
       ELSE ridx' = 1 /\ idx' = idx + 1
    /\ pc' = "loop"
    /\ UNCHANGED <<ts, runs, exitCode, inflight, lastDone, reqLog, keys, all,
                   bulkFiles, scanHistory, argv, fetchFiles, harness, resp, regions>>

ScanWrite ==
    /\ pc = "loop"
    /\ idx > Len(keys)
    /\ scanHistory' = appendHistory(scanHistory, all)
    /\ pc' = "done"
    /\ exitCode' = 0
    /\ UNCHANGED <<now, ts, runs, inflight, lastDone, reqLog, keys, idx, ridx,
                   all, bulkFiles, argv, fetchFiles, harness, resp, regions>>

InitScan == Fresh /\ csvIn = <<>> /\ normIn = <<>> /\ regions \in RegionLists

NextScan ==
    \/ ScanStart
    \/ ScanCatalog
    \/ ScanFetch
    \/ ScanCount
    \/ ScanSleep
    \/ ScanWrite

SpecScan == InitScan /\ [][NextScan]_vars

(***************************************************************************)
(* odds.js: the single-competition CLI (sports | fetch <key> [flags]).     *)
(***************************************************************************)
Argv(cmd, arg, include, writeCsv, region) ==
    [cmd |-> cmd, arg |-> arg, include |-> include, writeCsv |-> writeCsv,
     region |-> region]

\* command lines, after the flag loop: include and region are null (<<>>) or given
CommandLines ==
    {Argv("sports", <<>>, <<>>, FALSE, <<>>),
     Argv("help", <<>>, <<>>, FALSE, <<>>),
     Argv("fetch", <<>>, <<>>, TRUE, <<>>)}
    \cup {Argv("fetch", <<"a", "t", "p">>, inc, csv, reg) :
             inc \in {<<>>, <<<<"z", "z">>, <<"B", "O">>>>}, csv \in BOOLEAN, reg \in {<<>>, <<"u", "k">>}}

\* region || process.env.REGION || 'eu'
regionToUse(region) == IF region = <<>> THEN REGION ELSE region

\* the odds request that lets a non-success status through
oddsRequestThrowsNoStatusCheck(r) == r.kind \in {"network", "object"}

\* does fetchOddsForKey throw before it has the events: fetch() rejects,
\* !res.ok, or the body is no array (raw.map is not a function)
oddsRequestThrows(r) == r.kind \in {"network", "status", "object"}

\* the document written to odds_{key}.json
oddsDocument(sportKey, flags, at, filtered) ==
    [sportKey |-> sportKey, region |-> regionToUse(flags.region),
     filter |-> flags.include, fetchedAt |-> isoText(toISOString(at)),
     events |-> jsonEvents(filtered)]

\* the text written to odds_{key}.csv
oddsCsvText(flags, filtered) ==
    toCsv([i \in 1..Len(filtered) |-> csvRow(filtered[i], regionToUse(flags.region))])

FetchStart ==
    /\ pc \in {"idle", "done", "failed"}
    /\ runs < MaxRuns
    /\ runs' = runs + 1
    /\ resp' = [kind |-> "none", body |-> <<>>]
    /\ lastDone' = 0 - 1
    /\ \E a \in CommandLines :
          /\ argv' = a
          /\ CASE a.cmd = "sports" ->
                    /\ pc' = "sports" /\ exitCode' = 0 - 1
                    /\ inflight' = inflight + 1
                    /\ reqLog' = <<[key |-> <<"s", "p", "o", "r", "t", "s">>, region |-> <<>>, at |-> now,
                                    prevDone |-> 0 - 1]>>
               [] a.cmd = "fetch" /\ a.arg = <<>> ->
                    /\ pc' = "failed" /\ exitCode' = 1
                    /\ reqLog' = <<>>
                    /\ UNCHANGED inflight
               [] a.cmd = "fetch" /\ a.arg # <<>> ->
                    /\ pc' = "odds" /\ exitCode' = 0 - 1
                    /\ inflight' = inflight + 1
                    /\ reqLog' = <<[key |-> a.arg, region |-> regionToUse(a.region),
                                    at |-> now, prevDone |-> 0 - 1]>>
               [] OTHER ->
                    /\ pc' = "done" /\ exitCode' = 0
                    /\ reqLog' = <<>>
                    /\ UNCHANGED inflight
    /\ UNCHANGED <<now, ts, keys, idx, ridx, all, bulkFiles, scanHistory,
                   fetchFiles, harness, regions>>

\* listSports: prints the tennis competitions, or throws
FetchSports ==
    /\ pc = "sports"
    /\ \E r \in CatalogResponses :
          /\ resp' = r
          /\ IF r.kind = "ok"
             THEN /\ keys' = SelectSeq(r.body, isTennis)
                  /\ pc' = "done" /\ exitCode' = 0
             ELSE /\ pc' = "failed" /\ exitCode' = 1
                  /\ UNCHANGED keys
    /\ now' = now + Latency
    /\ inflight' = inflight - 1
    /\ lastDone' = now + Latency
    /\ UNCHANGED <<ts, runs, reqLog, idx, ridx, all, bulkFiles, scanHistory,
                   argv, fetchFiles, harness, regions>>

FetchOdds ==
    /\ pc = "odds"
    /\ \E r \in OddsResponses :
          /\ resp' = r
          /\ IF oddsRequestThrows(r)
             THEN /\ pc' = "failed" /\ exitCode' = 1
                  /\ UNCHANGED <<all, oddsJson, oddsCsv>>
             ELSE LET filtered == filterByNames(mapped(r.body), argv.include) IN
                  /\ all' = filtered
                  /\ oddsJson' = Put(oddsJson, argv.arg,
                                     oddsDocument(argv.arg, argv, now + Latency, filtered))
                  /\ oddsCsv' = IF argv.writeCsv
                                THEN Put(oddsCsv, argv.arg, oddsCsvText(argv, filtered))
                                ELSE oddsCsv
                  /\ pc' = "done" /\ exitCode' = 0
    /\ now' = now + Latency
    /\ inflight' = inflight - 1
    /\ lastDone' = now + Latency
    /\ UNCHANGED <<ts, runs, reqLog, keys, idx, ridx, bulkFiles, scanHistory,
                   argv, harness, regions>>

InitFetch == Fresh /\ csvIn = <<>> /\ normIn = <<>> /\ regions = <<>>

NextFetch ==
    \/ FetchStart
    \/ FetchSports
    \/ FetchOdds

SpecFetch == InitFetch /\ [][NextFetch]_vars

(***************************************************************************)
(* A reader of RFC 4180 text: records separated by line breaks, the line   *)
(* break after the last record optional, fields separated by commas, a     *)
(* field in double quotes may hold commas, line breaks and doubled quotes. *)
(***************************************************************************)
Positions(t) == [i \in 1..Len(t) |-> i]

\* the positions of the double quotes of t
QuotePositions(t) ==
    LET isQuote(i) == t[i] = "\"" IN SelectSeq(Positions(t), isQuote)

\* is position i outside quotes: an even number of double quotes precede it
Outside(q, i) == Cardinality({k \in 1..Len(q) : q[k] < i}) % 2 = 0

\* the spans <<first, last>> into which the unquoted separators c cut t[lo..hi]
Pieces(t, q, lo, hi, c) ==
    LET isCut(i) == lo <= i /\ i <= hi /\ t[i] = c /\ Outside(q, i)
        cuts == SelectSeq(Positions(t), isCut)
    IN  [k \in 1..(Len(cuts) + 1) |->
            <<IF k = 1 THEN lo ELSE cuts[k - 1] + 1,
              IF k = Len(cuts) + 1 THEN hi ELSE cuts[k] - 1>>]

\* the value of the field t[lo..hi]: as it stands, or, when it is quoted,
\* what is between the quotes with every doubled quote halved
FieldValue(t, q, lo, hi) ==
    IF lo <= hi /\ t[lo] = "\""
    THEN LET kept(i) == /\ lo < i /\ i < hi
                        /\ (t[i] = "\"" => ~Outside(q, i))
             at == SelectSeq(Positions(t), kept)
         IN  [k \in 1..Len(at) |-> t[at[k]]]
    ELSE SubSeq(t, lo, hi)

ParseCsv(t) ==
    LET q == QuotePositions(t)
        lines == Pieces(t, q, 1, Len(t), "\n")
        n == IF t = <<>> \/ (t[Len(t)] = "\n" /\ Outside(q, Len(t)))
             THEN Len(lines) - 1 ELSE Len(lines)
    IN  [k \in 1..n |->
            LET fields == Pieces(t, q, lines[k][1], lines[k][2], ",")
            IN  [f \in 1..Len(fields) |->
                    FieldValue(t, q, fields[f][1], fields[f][2])]]

\* the header and the records a reader should get back from toCsv(rows)
CsvExpected(rows) ==
    <<ObjectKeys(rows[1])>> \o
    [i \in 1..Len(rows) |-> [j \in 1..Len(rows[i]) |-> String(rows[i][j][2])]]

(***************************************************************************)
(* Claims.                                                                 *)
(***************************************************************************)

\* C7: for finite positive decimal odds the normalizer returns
\* p_i = (1/o_i) / sum_j (1/o_j): the probabilities sum to 1, every p_i * o_i
\* is the same number (the inverse of the sum of the implied probabilities),
\* lower odds get the strictly higher probability, equal odds get equal
\* probabilities, [1.8, 2.2] gives [0.55, 0.45] and [2, 2] gives [0.5, 0.5].
C7_NormalizeSumsToOneAndInvertsOrder ==
    pc = "done" =>
        /\ Len(normOut) = Len(normIn)
        /\ \A i \in 1..Len(normOut) : IsFin(normOut[i]) /\ normOut[i].n > 0
        /\ reduceAdd(normOut, 1, Zero) = Fin(1, 1)
        /\ \A i, j \in 1..Len(normIn) :
              /\ Fin(normOut[i].n * normIn[i].n, normOut[i].d * normIn[i].d)
                   = Fin(normOut[j].n * normIn[j].n, normOut[j].d * normIn[j].d)
              /\ Less(normIn[i], normIn[j]) => Less(normOut[j], normOut[i])
              /\ normIn[i] = normIn[j] => normOut[i] = normOut[j]
        /\ normIn = <<Fin(18, 10), Fin(22, 10)>> => normOut = <<Fin(55, 100), Fin(45, 100)>>
        /\ normIn = <<Fin(2, 1), Fin(2, 1)>> => normOut = <<Fin(1, 2), Fin(1, 2)>>

\* C7 witness: the odds [1.80, 2.20] have been normalized to [0.55, 0.45].
C7_Witness ==
    /\ pc = "done"
    /\ normIn = <<Fin(18, 10), Fin(22, 10)>>
    /\ normOut = <<Fin(55, 100), Fin(45, 100)>>
    /\ toFixed4(normOut[1]) = <<"0", ".", "5", "5", "0", "0">>

\* C8: toCsv([]) is the empty string, and reading toCsv(rows) back with an
\* RFC 4180 reader gives the header and every record, field for field.
C8_CsvRoundTrip ==
    pc = "done" =>
        /\ csvIn = <<>> => csvOut = <<>>
        /\ csvIn # <<>> => ParseCsv(csvOut) = CsvExpected(csvIn)

\* the text a reader gets for a value written by toCsv
CsvText(v) == IF v.t = "undef" THEN <<>> ELSE String(v)

\* the header and the records a reader should get back from a CSV of rows
CsvRecords(rows) ==
    <<ObjectKeys(rows[1])>> \o
    [i \in 1..Len(rows) |-> [j \in 1..Len(rows[i]) |-> CsvText(rows[i][j][2])]]

\* an event with a bookmaker offering h2h whose first such market has two outcomes or more
Usable(ev) ==
    \E b \in 1..Len(ev.bookmakers) :
        /\ \E m \in 1..Len(ev.bookmakers[b].markets) :
              /\ ev.bookmakers[b].markets[m].key = "h2h"
              /\ \A m2 \in 1..(m - 1) : ev.bookmakers[b].markets[m2].key # "h2h"
              /\ Len(ev.bookmakers[b].markets[m].outcomes) >= 2
        /\ \A b2 \in 1..(b - 1) : \A m \in 1..Len(ev.bookmakers[b2].markets) :
              ev.bookmakers[b2].markets[m].key # "h2h"

\* has a market request of the current run settled last
MarketSettled == Len(reqLog) > 1 /\ inflight = 0 /\ pc \in {"sleep", "failed"}

\* C1: under lenient mode a market-fetch failure (non-success status or
\* transport failure) never aborts the run: the bulk job goes on with an empty
\* row set for that competition (the history scan with a row of count -1).
C1_LenientFailureNeverAborts ==
    (MarketSettled /\ resp.kind \in {"status", "network"}) => pc = "sleep"

\* C4: a bulk run never deletes or rewrites an archive file odds_{stamp}.csv
\* that an earlier run has written.
C4_ArchiveNeverRewritten ==
    [][\A st \in DOMAIN archive : st \in DOMAIN archive' /\ archive'[st] = archive[st]]_vars

\* C9: within one run at most one upstream request is in flight, no target is
\* requested twice, and every upstream request after the first is issued only
\* when the one before it has settled and the throttle delay has passed since.
C9_SequentialAndThrottled ==
    /\ inflight <= 1
    /\ \A i, j \in 1..Len(reqLog) :
          (i # j) => <<reqLog[i].key, reqLog[i].region>> # <<reqLog[j].key, reqLog[j].region>>
    /\ \A i \in 2..Len(reqLog) :
          /\ reqLog[i].prevDone >= reqLog[i - 1].at
          /\ reqLog[i].at - reqLog[i].prevDone >= SleepBulk

\* every market request but the first of a run is issued a full throttle delay
\* after the request before it has settled
LaterRequestsThrottled ==
    \A i \in 3..Len(reqLog) :
        /\ reqLog[i].prevDone >= reqLog[i - 1].at
        /\ reqLog[i].at - reqLog[i].prevDone >= SleepBulk

\* C10 as stated: after a successful bulk run the latest JSON document has the
\* shape {fetchedAt, region, count, rows}.
C10_LatestJsonHasRows ==
    (pc = "done" /\ latestJson # <<>>) =>
        DOMAIN latestJson[1] = {"fetchedAt", "region", "count", "rows"}

\* C10 amended: after every successful bulk run the latest JSON document has
\* the shape {fetchedAt, region, count, events}; events is the accumulated row
\* sequence of the run, which grows at every settled market request by one row
\* per usable event of the response, in payload order and under the key of the
\* competition asked for; count is the number of rows; odds_latest.csv and the
\* archive CSV of the run hold the same text, which reads back as those rows.
C10_StateAfterRun ==
    (pc = "done") =>
        /\ dataDir /\ latestCsv # <<>> /\ latestJson # <<>> /\ exitCode = 0
        /\ stampOf(ts) \in DOMAIN archive
        /\ DOMAIN latestJson[1] = {"fetchedAt", "region", "count", "events"}
        /\ latestJson[1].fetchedAt = isoText(ts)
        /\ latestJson[1].region = REGION
        /\ latestJson[1].count = Len(all)
        /\ Len(latestJson[1].events) = Len(all)
        /\ \A i \in 1..Len(all) :
              \A f \in 1..Len(latestJson[1].events[i]) :
                  \E g \in 1..Len(all[i]) :
                      /\ all[i][g][1] = latestJson[1].events[i][f][1]
                      /\ all[i][g][2] = latestJson[1].events[i][f][2]
        /\ \A i \in 1..Len(all) :
              \A g \in 1..Len(all[i]) :
                  all[i][g][2].t # "undef" =>
                      \E f \in 1..Len(latestJson[1].events[i]) :
                          latestJson[1].events[i][f][1] = all[i][g][1]
        /\ archive[stampOf(ts)] = latestCsv[1]
        /\ all = <<>> => latestCsv[1] = <<>>
        /\ all # <<>> => ParseCsv(latestCsv[1]) = CsvRecords(all)
        /\ \A i, j \in 1..Len(all) :
              i < j =>
                  \E a, b \in 1..Len(keys) :
                      /\ a <= b
                      /\ Get(all[i], <<"s", "p", "o", "r", "t", "_", "k", "e", "y">>) = Str(keys[a].key)
                      /\ Get(all[j], <<"s", "p", "o", "r", "t", "_", "k", "e", "y">>) = Str(keys[b].key)

C10_StepOfRun ==
    (pc = "odds" /\ pc' = "sleep") =>
        LET usable == SelectSeq(resp'.body, Usable) IN
        /\ Len(all') = Len(all) + (IF resp'.kind = "ok" THEN Len(usable) ELSE 0)
        /\ SubSeq(all', 1, Len(all)) = all
        /\ resp'.kind = "ok" =>
              \A i \in 1..Len(usable) :
                  /\ Get(all'[Len(all) + i], <<"e", "v", "e", "n", "t", "_", "i", "d">>) = usable[i].id
                  /\ Get(all'[Len(all) + i], <<"s", "p", "o", "r", "t", "_", "k", "e", "y">>) = Str(keys[idx].key)

C10_LatestSnapshot == []C10_StateAfterRun /\ [][C10_StepOfRun]_vars

\* C10 witness: a run over two competitions has written a snapshot of two rows or more.
C10_Witness ==
    /\ pc = "done" /\ Len(keys) = 2 /\ Len(all) >= 2
    /\ latestJson # <<>> /\ latestJson[1].count = Len(all)
    /\ Get(all[1], <<"s", "p", "o", "r", "t", "_", "k", "e", "y">>) # Get(all[Len(all)], <<"s", "p", "o", "r", "t", "_", "k", "e", "y">>)

\* C2: in the fetch entry point a non-success response to the odds request
\* ends the invocation with exit status 1 and leaves odds_{key}.json and
\* odds_{key}.csv as they were, whatever --csv, --include and --region say.
C2_StrictFailureWritesNothing ==
    [][(pc = "odds" /\ resp'.kind = "status") =>
          /\ pc' = "failed"
          /\ exitCode' = 1
          /\ oddsJson' = oddsJson
          /\ oddsCsv' = oddsCsv]_vars

\* C2 witness: a fetch with --csv has failed on a non-success status while the
\* files of an earlier successful fetch of the same competition exist.
C2_Witness ==
    /\ pc = "failed" /\ exitCode = 1 /\ resp.kind = "status"
    /\ argv.cmd = "fetch" /\ argv.writeCsv
    /\ argv.arg \in DOMAIN oddsJson /\ argv.arg \in DOMAIN oddsCsv

C3Header == <<"t", "i", "m", "e", "s", "t", "a", "m", "p", ",", "k", "e", "y", ",", "t", "i", "t", "l", "e", ",", "r", "e", "g", "i", "o", "n", ",", "c", "o", "u", "n", "t">> \o <<"\n">>

\* the text of a file that may be absent
TextOf(file) == IF file = <<>> THEN <<>> ELSE file[1]

LineBreaks(t) == Cardinality({i \in 1..Len(t) : t[i] = "\n"})

\* the number of lines of t that are the header line
HeaderLines(t) ==
    Cardinality({i \in 1..Len(t) :
                    /\ (i = 1 \/ t[i - 1] = "\n")
                    /\ i + Len(C3Header) - 1 <= Len(t)
                    /\ SubSeq(t, i, i + Len(C3Header) - 1) = C3Header})

\* the data rows of scan_history.csv: its lines but the header
DataRows(t) == LineBreaks(t) - HeaderLines(t)

C3_Step ==
    IF pc = "loop" /\ pc' = "done"
    THEN LET old == TextOf(scanHistory)
             new == TextOf(scanHistory')
         IN  /\ scanHistory' # <<>>
             /\ SubSeq(new, 1, Len(C3Header)) = C3Header
             /\ SubSeq(new, 1, Len(old)) = old
             /\ HeaderLines(new) = 1
             /\ new[Len(new)] = "\n"
             /\ DataRows(new) = DataRows(old) + Len(keys) * Len(regions)
    ELSE scanHistory' = scanHistory

\* C3: the first history scan against a missing scan_history.csv leaves a
\* file that begins with the line timestamp,key,title,region,count; every
\* later scan keeps the existing text as a prefix, writes no second header
\* line and adds one data row per (active competition, region) pair of the
\* run; nothing else touches the file.
C3_HistoryAppendOnly == [][C3_Step]_vars

\* C3 witness: a second scan over two regions has appended to the file of the first.
C3_Witness ==
    /\ pc = "done" /\ runs = 2 /\ Len(regions) = 2 /\ Len(keys) = 2
    /\ scanHistory # <<>>
    /\ HeaderLines(scanHistory[1]) = 1
    /\ DataRows(scanHistory[1]) = 8

\* the history scan half of C1: a failed market request leaves a row of
\* count -1 and the scan goes on
ScanFailureLeavesMarker ==
    (MarketSettled /\ resp.kind \in {"status", "network"}) =>
        /\ pc = "sleep"
        /\ all[Len(all)].count = 0 - 1

NaNText == <<"N", "a", "N">>
InfinityText == <<"I", "n", "f", "i", "n", "i", "t", "y">>

Clean(t) == ~includes(t, NaNText) /\ ~includes(t, InfinityText)

\* C5: the text NaN or Infinity is never written into a persisted CSV or
\* JSON artifact, and no JSON document holds a non-finite probability or
\* price: a probability that is not finite is persisted as a blank field.
C5_NoNonFiniteTextPersisted ==
    /\ \A f \in DOMAIN oddsCsv : Clean(oddsCsv[f])
    /\ \A f \in DOMAIN archive : Clean(archive[f])
    /\ latestCsv # <<>> => Clean(latestCsv[1])
    /\ \A f \in DOMAIN oddsJson :
          \A i \in 1..Len(oddsJson[f].events) :
              \A j \in 1..Len(oddsJson[f].events[i].probs_normalized) :
                  oddsJson[f].events[i].probs_normalized[j].k \in {"fin", "null"}
    /\ latestJson # <<>> =>
          \A i \in 1..Len(latestJson[1].events) :
              \A j \in 1..Len(latestJson[1].events[i]) :
                  latestJson[1].events[i][j][2].x.k \in {"fin", "null"}

\* an event whose first bookmaker offering h2h lists two outcomes or more that carry a price
PricedTwice(ev) ==
    \E b \in 1..Len(ev.bookmakers) :
        /\ \E m \in 1..Len(ev.bookmakers[b].markets) :
              /\ ev.bookmakers[b].markets[m].key = "h2h"
              /\ \A m2 \in 1..(m - 1) : ev.bookmakers[b].markets[m2].key # "h2h"
              /\ Cardinality({o \in 1..Len(ev.bookmakers[b].markets[m].outcomes) :
                     ev.bookmakers[b].markets[m].outcomes[o].price.k # "undef"}) >= 2
        /\ \A b2 \in 1..(b - 1) : \A m \in 1..Len(ev.bookmakers[b2].markets) :
              ev.bookmakers[b2].markets[m].key # "h2h"

\* C6: a response adds one row per event whose first bookmaker offering h2h
\* has two priced outcomes or more, in payload order, and no row for any other
\* event: none without an h2h market, none with fewer than two outcomes
\* carrying a price.
C6_RowsOnlyForTwoPricedOutcomes ==
    [][(pc = "odds" /\ pc' = "sleep" /\ resp'.kind = "ok") =>
          LET priced == SelectSeq(resp'.body, PricedTwice) IN
          /\ Len(all') = Len(all) + Len(priced)
          /\ \A i \in 1..Len(priced) :
                Get(all'[Len(all) + i], <<"e", "v", "e", "n", "t", "_", "i", "d">>) = priced[i].id]_vars

====
